---- MODULE Spec2Model ----
(***************************************************************************)
(* Model of tandem-source-sync: the Puppeteer scraper (scrapeTandemSource, *)
(* performLogin, downloadReport), the sync handler (performSync) and the   *)
(* entry points that start a sync (POST /api/sync, GET /api/cron,          *)
(* triggerSyncAction).                                                     *)
(*                                                                         *)
(* Two specifications share the module:                                    *)
(*   Spec       one call of scrapeTandemSource against a page whose        *)
(*              behaviour (URLs, DOM contents, failures, durations) is     *)
(*              chosen by the environment at each step;                    *)
(*   SpecRoutes concurrent requests to the entry points, interleaved at    *)
(*              their await points, with performSync's steps.              *)
(***************************************************************************)
EXTENDS Integers, Sequences, FiniteSets, TLC

VARIABLES
  \* ---- one scrapeTandemSource call ----
  rev,            \* revision of the scraper source: "current" or "legacy"
  reportDays,     \* options.reportDays
  pc,             \* position of the control flow
  browser,        \* the local variable `browser`: "null" or "handle"
  browserOpen,    \* whether the browser process is running
  closeCalls,     \* number of browser.close() calls made so far
  url,            \* page.url(), a sequence of tokens
  typed,          \* credentials typed so far: set of [field, url]
  caught,         \* the value thrown into scrapeTandemSource's catch block
  result,         \* the ScraperResult returned, NoResult before the return
  escaped,        \* TRUE when an exception left scrapeTandemSource
  loginReturned,  \* TRUE once performLogin has returned normally
  last,           \* what the most recent look at the DOM found or did
  slow,           \* the site answers every wait only just within its bound
  elapsed,        \* milliseconds since the call started
  dom,            \* the submit step's look at the document: buttons, submitBtn
  \* ---- downloadReport ----
  captureOn,      \* the CDP Page.downloadProgress handler is registered
  exportClicked,  \* the export control has been clicked
  downloadedFile, \* the handler's variable: "null" or the suggested filename
  tmp,            \* files in /tmp matching CSV_*.csv, recently modified: name -> bytes
  waited,         \* Date.now() - startTime in the wait loop
  filename,       \* the wait loop's variable: "null" or a file name
  buffer,         \* bytes read from the file, NoBuffer before the read
  unlinkCalls,    \* names passed to fs.unlink
  \* ---- entry points and performSync ----
  syncInProgress, \* the module variable of POST /api/sync
  env,            \* process.env: the configuration of the deployment
  req,            \* the requests: id -> [kind, pc, status, sync]
  reports,        \* number of reports written by storeReport
  syncStatus,     \* the SyncResult last written by storeSyncStatus
  visit,          \* a browser's visit to / or /login: the page requested, the
                  \* component rendered, redirects followed, cookie, clock
  cleanup         \* a call of cleanupOldReports: storage mode, the reports in
                  \* the store listReports reads, the call's locals

downloadVars == <<captureOn, exportClicked, downloadedFile, tmp, waited,
                  filename, buffer, unlinkCalls>>
routeVars == <<syncInProgress, env, req, reports, syncStatus, visit, cleanup>>
scraperVars == <<rev, reportDays, pc, browser, browserOpen, closeCalls, url,
                 typed, caught, result, escaped, loginReturned, last, slow,
                 elapsed, dom>>
vars == <<scraperVars, downloadVars, routeVars>>

(***************************************************************************)
(* URLs.  A URL is the sequence of its tokens: the scheme, the labels of   *)
(* the host, "/" and the tokens of path and query.  String.includes is     *)
(* substring search over the whole href, here search for a contiguous run  *)
(* of tokens.                                                              *)
(***************************************************************************)
SsoHost == <<"sso", "tandemdiabetes", "com">>
OriginHost == <<"source", "tandemdiabetes", "com">>
OtherHost == <<"other", "example">>

Url(host, rest) == <<"https://">> \o host \o <<"/">> \o rest

OriginRoot == Url(OriginHost, <<>>)
OriginReports == Url(OriginHost, <<"reports", "timeline">>)
SsoLogin == Url(SsoHost, <<"login">>)
SsoLoginReturn == Url(SsoHost, <<"login", "?", "returnUrl", "=">> \o OriginHost)
OtherPlain == Url(OtherHost, <<>>)
OtherMentionsSso == Url(OtherHost, <<"?", "next", "=">> \o SsoHost)
OtherSuffixSso == Url(SsoHost \o OtherHost, <<>>)

Urls == {OriginRoot, SsoLogin, SsoLoginReturn, OtherPlain, OtherMentionsSso,
         OtherSuffixSso}

includes(hay, needle) ==
  \E i \in 1..(Len(hay) - Len(needle) + 1) :
    SubSeq(hay, i, i + Len(needle) - 1) = needle

FirstSlash(u) ==
  CHOOSE i \in 1..(Len(u) + 1) :
    /\ i = Len(u) + 1 \/ u[i] = "/"
    /\ \A j \in 1..(i - 1) : u[j] # "/"

Host(u) == SubSeq(u, 2, FirstSlash(u) - 1)

(***************************************************************************)
(* Thrown values and results.                                              *)
(***************************************************************************)
Err(m) == [isError |-> TRUE, message |-> m]
NonError == [isError |-> FALSE, message |-> "rejected with a non-Error value"]
NoError == [isError |-> FALSE, message |-> ""]

NavTimeout == Err("Navigation timeout exceeded")
SelectorTimeout == Err("Waiting for selector failed")
NoElement == Err("No element found for selector")
ProtocolError == Err("Protocol error")
LaunchError == Err("Failed to launch the browser process")
CloseError == Err("Browser close failed")
ReadError == Err("ENOENT: no such file or directory")

Absent == "undefined"
NoResult == [success |-> Absent, csvBuffer |-> Absent, error |-> Absent,
             metadata |-> Absent]
\* `buffer` before the read: a value of the type of file contents that no
\* file holds
NoBuffer == <<"none">>

\* error instanceof Error ? error.message : 'Unknown scraping error'
ErrorMessage(e) == IF e.isError THEN e.message ELSE "Unknown scraping error"

\* (mutant) the failure carries the bytes of a download
FailureResult_withBuffer(e) ==
  [success |-> FALSE, csvBuffer |-> <<"own">>, error |-> ErrorMessage(e),
   metadata |-> Absent]

FailureResult(e) ==
  [success |-> FALSE, csvBuffer |-> Absent, error |-> ErrorMessage(e),
   metadata |-> Absent]

(***************************************************************************)
(* Dates.  An instant is a number of hours since an epoch (UTC); the       *)
(* process runs in UTC or in a zone that observes daylight saving time,    *)
(* whose clocks go from UTC-8 to UTC-7 at the instant Transition.          *)
(***************************************************************************)
HoursPerDay == 24
Transition == 8 * HoursPerDay + 10
Zones == {"UTC", "DST"}

\* new Date(): before the transition, a few hours after it, long after it
Instants == {Transition - 2 * HoursPerDay, Transition + 8,
             Transition + 10 * HoursPerDay}

StandardOffset(zone) == IF zone = "UTC" THEN 0 ELSE 0 - 8
DaylightOffset(zone) == IF zone = "UTC" THEN 0 ELSE 0 - 7

\* LocalTime(t): the wall clock of the zone at the instant t
LocalTime(t, zone) ==
  t + (IF t < Transition THEN StandardOffset(zone) ELSE DaylightOffset(zone))

\* UTC(wall): the instant at which the zone's wall clock shows `wall`; a
\* wall-clock time skipped by the transition is read with the offset in
\* force before it
UTC(wall, zone) ==
  IF wall - StandardOffset(zone) < Transition
    THEN wall - StandardOffset(zone)
  ELSE IF wall - DaylightOffset(zone) >= Transition
    THEN wall - DaylightOffset(zone)
  ELSE wall - StandardOffset(zone)

\* d.setDate(d.getDate() - days): the same wall-clock time, `days` calendar
\* days earlier, in the process's time zone
setDate(t, zone, days) == UTC(LocalTime(t, zone) - days * HoursPerDay, zone)

\* endDate = new Date(); startDate = new Date();
\* startDate.setDate(startDate.getDate() - reportDays); toISOString()
Metadata(now, zone, days) ==
  [startDate |-> setDate(now, zone, days), endDate |-> now]

SuccessResult(bytes, days, now, zone) ==
  [success |-> TRUE, csvBuffer |-> bytes, error |-> Absent,
   metadata |-> Metadata(now, zone, days)]

\* The success results of a run that read `bytes`, at any time in any zone
SuccessResults(bytes, days) ==
  {SuccessResult(bytes, days, now, zone) : now \in Instants, zone \in Zones}

(***************************************************************************)
(* Program constants (milliseconds).                                       *)
(***************************************************************************)
DefaultTimeout == 180000
GotoTimeout == 60000
SsoNavTimeout == 30000
SelectorWait == 10000
LoginNavTimeout == 60000
DownloadWait == 60000
PollInterval == 500

\* A wait that succeeds ends at once on a fast site, at its bound on a slow one.
Wait(bound) == IF slow THEN bound ELSE 0

ReportDaysValues == {1, 7}
Revisions == {"current", "legacy"}

MaxRequests == 2
Requests == 1..MaxRequests

\* /tmp: an earlier or concurrent run may have left a recent CSV_*.csv there
OwnFile == "CSV_own.csv"
StaleFile == "CSV_stale.csv"
OwnContents == {<<>>, <<"own">>}
StaleBytes == <<"stale">>
NoFiles == [n \in {} |-> <<>>]
Without(files, name) == [n \in (DOMAIN files) \ {name} |-> files[n]]

\* The buttons of the login document in document order, as the submit step
\* reads them: whether the text or aria-label of a button contains one of
\* the words looked for, and whether its type attribute is 'submit'
MaxButtons == 2
Buttons == [text : BOOLEAN, typeSubmit : BOOLEAN]
Documents == UNION {[1..n -> Buttons] : n \in 0..MaxButtons}
\* outside the submit step: no buttons read, submitBtn undefined (0)
NoDom == [buttons |-> <<>>, submitBtn |-> 0]

InitScraper ==
  /\ rev \in Revisions
  /\ reportDays \in ReportDaysValues
  /\ pc = "start"
  /\ browser = "null"
  /\ browserOpen = FALSE
  /\ closeCalls = 0
  /\ url = <<>>
  /\ typed = {}
  /\ caught = NoError
  /\ result = NoResult
  /\ escaped = FALSE
  /\ loginReturned = FALSE
  /\ last = "nothing"
  /\ slow \in BOOLEAN
  /\ elapsed = 0
  /\ dom = NoDom
  /\ captureOn = FALSE
  /\ exportClicked = FALSE
  /\ downloadedFile = "null"
  /\ tmp \in {NoFiles, StaleFile :> StaleBytes}
  /\ waited = 0
  /\ filename = "null"
  /\ buffer = NoBuffer
  /\ unlinkCalls = {}

\* The text of an environment variable is the sequence of its characters;
\* a variable is set to a text or not set at all
Text(chars) == [set |-> TRUE, text |-> chars]
NoText == [set |-> FALSE, text |-> <<>>]

\* Values of REPORT_DAYS: '', '0', '-3', 'abc', '7', '14'
ReportDaysTexts ==
  {Text(<<>>), Text(<<"0">>), Text(<<"-", "3">>), Text(<<"a", "b", "c">>),
   Text(<<"7">>), Text(<<"1", "4">>)}

\* Deployments: every variable set and REPORT_DAYS left to its default, or
\* one of the variables missing, or REPORT_DAYS set
Unset == "unset"
FullEnv == [API_KEY |-> "key", CRON_SECRET |-> "secret",
            DASHBOARD_PASSWORD |-> "password", TANDEM |-> "set",
            REPORT_DAYS |-> NoText]
Envs == {FullEnv,
         [FullEnv EXCEPT !.API_KEY = Unset],
         [FullEnv EXCEPT !.CRON_SECRET = Unset],
         [FullEnv EXCEPT !.DASHBOARD_PASSWORD = Unset],
         [FullEnv EXCEPT !.TANDEM = Unset]}
          \cup {[FullEnv EXCEPT !.REPORT_DAYS = t] : t \in ReportDaysTexts}

\* Numbers as JavaScript has them here: an integer or NaN
Num(n) == [isNaN |-> FALSE, value |-> n]
NaN == [isNaN |-> TRUE, value |-> 0]

DecimalDigits == <<"0", "1", "2", "3", "4", "5", "6", "7", "8", "9">>
IsDigit(c) == \E i \in DOMAIN DecimalDigits : DecimalDigits[i] = c
DigitValue(c) == (CHOOSE i \in DOMAIN DecimalDigits : DecimalDigits[i] = c) - 1

\* the longest prefix of `chars` made of decimal digits
RECURSIVE DigitPrefix(_)
DigitPrefix(chars) ==
  IF chars = <<>> \/ ~IsDigit(Head(chars))
    THEN <<>>
    ELSE <<Head(chars)>> \o DigitPrefix(Tail(chars))

RECURSIVE DigitsValue(_)
DigitsValue(digits) ==
  IF digits = <<>>
    THEN 0
    ELSE DigitsValue(SubSeq(digits, 1, Len(digits) - 1)) * 10
           + DigitValue(digits[Len(digits)])

RECURSIVE TrimStart(_)
TrimStart(chars) ==
  IF chars # <<>> /\ Head(chars) = " " THEN TrimStart(Tail(chars)) ELSE chars

\* parseInt(string, 10): leading white space is skipped, a sign is read,
\* then the longest run of digits; NaN when there is no digit
parseInt(chars) ==
  LET trimmed == TrimStart(chars)
      signed == trimmed # <<>> /\ Head(trimmed) \in {"-", "+"}
      negative == trimmed # <<>> /\ Head(trimmed) = "-"
      digits == DigitPrefix(IF signed THEN Tail(trimmed) ELSE trimmed)
  IN  IF digits = <<>> THEN NaN
      ELSE Num(IF negative THEN 0 - DigitsValue(digits) ELSE DigitsValue(digits))

\* a || b on strings: b when a is undefined or the empty string
OrDefault(a, b) == IF a.set /\ a.text # <<>> THEN a.text ELSE b

\* parseInt(process.env.REPORT_DAYS || '2', 10)
ReportDaysOf(e) == parseInt(OrDefault(e.REPORT_DAYS, <<"2">>))

\* no SyncResult yet: neither a success nor a failure with its message
NoSync == [success |-> FALSE, error |-> Absent]
\* scraperResult before scrapeTandemSource has returned to performSync
NotScraped == FailureResult(Err("scrapeTandemSource has not returned"))
\* a request without 'Authorization' and 'X-API-Key' headers, and a visitor
\* without the dashboard-session cookie
NoHeaders == [authorization |-> Unset, xApiKey |-> Unset]
NoCookie == [numeric |-> FALSE, timestamp |-> 0, issued |-> FALSE]
SESSION_MAX_AGE == 60 * 60 * 24 * 7
\* Date.now() when the first request arrives, in milliseconds
Now == 3 * SESSION_MAX_AGE * 1000
\* no call of cleanupOldReports under way.  A report is named by the rank
\* of its upload time: the greater number is the newer report.
NoCleanup == [mode |-> "blob", store |-> {}, initial |-> {}, keepCount |-> 0,
              pc |-> "idle", listed |-> FALSE, reportsToDelete |-> <<>>,
              deletedCount |-> 0, failures |-> 0, returned |-> 0]
\* no visit under way
NoVisit == [page |-> "/", rendered |-> "none", redirects |-> 0,
            cookie |-> NoCookie, now |-> Now, loggedOut |-> NoCookie]
NoRequest == [kind |-> "none", pc |-> "idle", status |-> 0, sync |-> NoSync,
              scraped |-> NotScraped, reportDays |-> NaN,
              request |-> NoHeaders, cookie |-> NoCookie, stores |-> 0,
              body |-> [success |-> Absent, error |-> Absent, data |-> NoSync]]

InitRoutes ==
  /\ syncInProgress = FALSE
  /\ env = FullEnv
  /\ req = [r \in Requests |-> NoRequest]
  /\ reports = 0
  /\ syncStatus = NoSync
  /\ visit = NoVisit
  /\ cleanup = NoCleanup

Init == InitScraper /\ InitRoutes

(***************************************************************************)
(* scrapeTandemSource                                                      *)
(***************************************************************************)
Throw(e) == pc' = "catch" /\ caught' = e
Goto(next) == pc' = next /\ caught' = caught

\* browser = await createBrowser()
createBrowser ==
  /\ pc = "start"
  /\ \/ /\ Goto("newPage")
        /\ browser' = "handle"
        /\ browserOpen' = TRUE
     \/ /\ Throw(LaunchError)
        /\ UNCHANGED <<browser, browserOpen>>
  /\ UNCHANGED <<rev, reportDays, closeCalls, url, typed, result, escaped,
                 loginReturned, last, slow, elapsed, dom, downloadVars,
                 routeVars>>

\* browser.newPage(), setViewport, setUserAgent, setDefaultTimeout
newPage ==
  /\ pc = "newPage"
  /\ \/ Goto("L_goto")
     \/ Throw(ProtocolError)
     \/ Throw(NonError)
  /\ UNCHANGED <<rev, reportDays, browser, browserOpen, closeCalls, url, typed,
                 result, escaped, loginReturned, last, slow, elapsed, dom,
                 downloadVars, routeVars>>

(***************************************************************************)
(* performLogin.  Steps shared by both revisions take their successor from *)
(* rev; steps named _legacy exist in the legacy revision only.             *)
(***************************************************************************)
submitFrame ==
  UNCHANGED <<rev, reportDays, browser, browserOpen, closeCalls, result,
              escaped, slow, downloadVars, routeVars>>

loginFrame == submitFrame /\ UNCHANGED dom

\* await page.goto('https://source.tandemdiabetes.com/', {timeout: 60000})
performLogin_goto ==
  /\ pc = "L_goto"
  /\ \/ \E u \in Urls :
          /\ Goto(IF rev = "current" THEN "L_cookie" ELSE "G_waitNav")
          /\ url' = u
          /\ elapsed' = elapsed + Wait(GotoTimeout)
     \/ /\ Throw(NavTimeout)
        /\ url' = url
        /\ elapsed' = elapsed + GotoTimeout
  /\ UNCHANGED <<typed, loginReturned, last>>
  /\ loginFrame

\* (mutant) the run needs the cookie button
AfterCookie_required(clicked) == IF clicked THEN "L_country" ELSE "catch"

\* if (cookieButtonClicked) { delay(1000) }: both branches join at the
\* check for the country selector
AfterCookie(clicked) == "L_country"

\* the cookie modal: click a button whose text has accept/agree/cookie
performLogin_cookie ==
  /\ pc = "L_cookie"
  /\ \/ \E present \in BOOLEAN :
          /\ Goto(AfterCookie(present))
          /\ last' = IF present THEN "cookie:clicked" ELSE "cookie:absent"
          /\ elapsed' = elapsed + (IF present THEN 1000 ELSE 0)
     \/ /\ Throw(ProtocolError)
        /\ UNCHANGED <<last, elapsed>>
  /\ UNCHANGED <<url, typed, loginReturned>>
  /\ loginFrame

\* countrySelectorExists: the page text includes 'Select your country'
performLogin_countrySelector ==
  /\ pc = "L_country"
  /\ \/ \E exists \in BOOLEAN :
          /\ Goto(IF exists THEN "L_countryClick" ELSE "L_isOnLogin")
          /\ last' = IF exists THEN "locale:detected" ELSE "locale:absent"
     \/ /\ Throw(ProtocolError)
        /\ last' = last
  /\ UNCHANGED <<url, typed, loginReturned, elapsed>>
  /\ loginFrame

\* The [role="option"] elements of an opened dropdown: one of them has the
\* wanted text, or there are options but none has it, or there is no option
OptionLists == {"options:match", "options:other", "options:none"}

\* (mutant) no fallback to the first option
SelectOption_matchOnly(kind, options) ==
  IF kind = "country"
    THEN (IF options = "options:match" THEN "country:match" ELSE "country:none")
    ELSE (IF options = "options:match" THEN "language:match" ELSE "language:none")

\* options.find(text includes the wanted name) -> click it; otherwise
\* document.querySelector('[role="option"]') -> click it if there is one
SelectOption(kind, options) ==
  IF kind = "country"
    THEN CASE options = "options:match" -> "country:match"
           [] options = "options:other" -> "country:first"
           [] OTHER -> "country:none"
    ELSE CASE options = "options:match" -> "language:match"
           [] options = "options:other" -> "language:first"
           [] OTHER -> "language:none"

\* await page.click('#country'); await delay(1000): the dropdown opens
performLogin_countryClick ==
  /\ pc = "L_countryClick"
  /\ \/ /\ Goto("L_countrySelect")
        /\ last' \in OptionLists
        /\ elapsed' = elapsed + 1000
     \/ /\ Throw(NoElement)
        /\ UNCHANGED <<last, elapsed>>
  /\ UNCHANGED <<url, typed, loginReturned>>
  /\ loginFrame

\* click the 'United States'/'USA' option, else the first option if any
performLogin_countrySelect ==
  /\ pc = "L_countrySelect"
  /\ \/ /\ Goto("L_langClick")
        /\ last' = SelectOption("country", last)
        /\ elapsed' = elapsed + 1000
     \/ /\ Throw(ProtocolError)
        /\ UNCHANGED <<last, elapsed>>
  /\ UNCHANGED <<url, typed, loginReturned>>
  /\ loginFrame

\* await page.click('#preferredLanguage'); await delay(1000)
performLogin_languageClick ==
  /\ pc = "L_langClick"
  /\ \/ /\ Goto("L_langSelect")
        /\ last' \in OptionLists
        /\ elapsed' = elapsed + 1000
     \/ /\ Throw(NoElement)
        /\ UNCHANGED <<last, elapsed>>
  /\ UNCHANGED <<url, typed, loginReturned>>
  /\ loginFrame

\* click the 'English' option, else the first option if any
performLogin_languageSelect ==
  /\ pc = "L_langSelect"
  /\ \/ /\ Goto("L_continue")
        /\ last' = SelectOption("language", last)
        /\ elapsed' = elapsed + 1000
     \/ /\ Throw(ProtocolError)
        /\ UNCHANGED <<last, elapsed>>
  /\ UNCHANGED <<url, typed, loginReturned>>
  /\ loginFrame

ContinueMissing == Err("Could not find Continue button")

\* (mutant) a missing Continue button is passed over
ContinueStep_lenient(clicked) == Goto("L_isOnLogin")

\* if (!continueClicked) throw new Error('Could not find Continue button')
ContinueStep(clicked) ==
  IF clicked THEN Goto("L_isOnLogin") ELSE Throw(ContinueMissing)

\* click the button with 'Continue', throw when there is none; delay(2000)
performLogin_continue ==
  /\ pc = "L_continue"
  /\ \E clicked \in BOOLEAN :
       /\ ContinueStep(clicked)
       /\ last' = IF clicked THEN "continue:clicked" ELSE "continue:absent"
       /\ IF clicked
            THEN /\ url' \in {url, SsoLogin}
                 /\ elapsed' = elapsed + 2000
            ELSE UNCHANGED <<url, elapsed>>
  /\ UNCHANGED <<typed, loginReturned>>
  /\ loginFrame

\* isOnLoginPage: 'Account Login' in the text or a username/email input
performLogin_isOnLoginPage ==
  /\ pc = "L_isOnLogin"
  /\ \/ \E on \in BOOLEAN :
          /\ Goto(IF on THEN "L_verifySso" ELSE "L_waitNav")
          /\ last' = IF on THEN "login:present" ELSE "login:absent"
     \/ /\ Throw(ProtocolError)
        /\ last' = last
  /\ UNCHANGED <<url, typed, loginReturned, elapsed>>
  /\ loginFrame

\* await page.waitForNavigation({timeout: 30000})
performLogin_waitForSso ==
  /\ pc = "L_waitNav"
  /\ \/ \E u \in Urls :
          /\ Goto("L_verifySso")
          /\ url' = u
          /\ elapsed' = elapsed + Wait(SsoNavTimeout)
     \/ /\ Throw(NavTimeout)
        /\ url' = url
        /\ elapsed' = elapsed + SsoNavTimeout
  /\ UNCHANGED <<typed, loginReturned, last>>
  /\ loginFrame

\* legacy: waitForNavigation({timeout: 30000}) right after the landing page
performLogin_waitForSso_legacy ==
  /\ pc = "G_waitNav"
  /\ \/ \E u \in Urls :
          /\ Goto("L_verifySso")
          /\ url' = u
          /\ elapsed' = elapsed + Wait(SsoNavTimeout)
     \/ /\ Throw(NavTimeout)
        /\ url' = url
        /\ elapsed' = elapsed + SsoNavTimeout
  /\ UNCHANGED <<typed, loginReturned, last>>
  /\ loginFrame

\* if (!currentUrl.includes('sso.tandemdiabetes.com')) throw
OnSsoPage(u) == includes(u, SsoHost)

performLogin_verifySso ==
  /\ pc = "L_verifySso"
  /\ IF OnSsoPage(url)
       THEN Goto("L_fillUser")
       ELSE Throw(Err("Did not redirect to SSO login page"))
  /\ UNCHANGED <<url, typed, loginReturned, last, elapsed>>
  /\ loginFrame

\* waitForSelector(usernameSelector, {timeout: 10000}); page.type(.., username)
performLogin_username ==
  /\ pc = "L_fillUser"
  /\ \/ /\ Goto(IF rev = "current" THEN "L_next" ELSE "G_fillPass")
        /\ typed' = typed \cup {[field |-> "username", url |-> url]}
        /\ elapsed' = elapsed + Wait(SelectorWait)
     \/ /\ Throw(SelectorTimeout)
        /\ typed' = typed
        /\ elapsed' = elapsed + SelectorWait
  /\ UNCHANGED <<url, loginReturned, last>>
  /\ loginFrame

FormShapes == {"form:twoStep", "form:combined"}

\* click the button with 'next' in text or aria-label, throw when none
HasNextButton(form) == form = "form:twoStep"

performLogin_next ==
  /\ pc = "L_next"
  /\ \/ \E form \in FormShapes :
          /\ last' = form
          /\ IF HasNextButton(form)
               THEN Goto("L_fillPass") /\ elapsed' = elapsed + 2000
               ELSE Throw(Err("Could not find Next button")) /\ elapsed' = elapsed
     \/ /\ Throw(ProtocolError)
        /\ UNCHANGED <<last, elapsed>>
  /\ UNCHANGED <<url, typed, loginReturned>>
  /\ loginFrame

\* waitForSelector(passwordSelector, {timeout: 10000}); page.type(.., password)
performLogin_password ==
  /\ pc = "L_fillPass"
  /\ \/ /\ Goto("L_submit")
        /\ typed' = typed \cup {[field |-> "password", url |-> url]}
        /\ last' = "password:typed"
        /\ elapsed' = elapsed + Wait(SelectorWait)
     \/ /\ Throw(SelectorTimeout)
        /\ typed' = typed
        /\ last' = "password:absent"
        /\ elapsed' = elapsed + SelectorWait
  /\ UNCHANGED <<url, loginReturned>>
  /\ loginFrame

\* legacy: the password selector is awaited right after the username was
\* typed; on a two-step form the field is not there before a Next click
PasswordVisibleAtOnce(form) == form = "form:combined"

performLogin_password_legacy ==
  /\ pc = "G_fillPass"
  /\ \/ \E form \in FormShapes :
          /\ last' = form
          /\ IF PasswordVisibleAtOnce(form)
               THEN /\ Goto("G_submit")
                    /\ typed' = typed \cup {[field |-> "password", url |-> url]}
                    /\ elapsed' = elapsed + Wait(SelectorWait)
               ELSE /\ Throw(SelectorTimeout)
                    /\ typed' = typed
                    /\ elapsed' = elapsed + SelectorWait
     \/ /\ Throw(SelectorTimeout)
        /\ typed' = typed
        /\ last' = "password:absent"
        /\ elapsed' = elapsed + SelectorWait
  /\ UNCHANGED <<url, loginReturned>>
  /\ loginFrame

\* the predicate of buttons.find: the text or the aria-label contains one
\* of the words, or the type attribute is 'submit'
IsSubmitButton(btn) == btn.text \/ btn.typeSubmit

\* buttons.find(...): the first button, in the order of the array, that
\* satisfies the predicate; 0 for undefined
find(array) ==
  IF \E i \in DOMAIN array : IsSubmitButton(array[i])
    THEN CHOOSE i \in DOMAIN array :
           /\ IsSubmitButton(array[i])
           /\ \A j \in 1..(i - 1) : ~IsSubmitButton(array[j])
    ELSE 0

\* click the first button matching text, aria-label or type=submit; when
\* none matches, page.click('button[type="submit"], input[type="submit"]'),
\* which rejects when no input of type submit is there either
performLogin_submit ==
  /\ pc = "L_submit"
  /\ \/ \E buttons \in Documents, inputSubmit \in BOOLEAN, u \in Urls :
          LET submitBtn == find(buttons) IN
          /\ dom' = [buttons |-> buttons, submitBtn |-> submitBtn]
          /\ IF submitBtn # 0 \/ inputSubmit
               THEN /\ Goto("L_isRedirected")
                    /\ last' = IF submitBtn # 0 THEN "submit:button"
                                                ELSE "submit:selector"
                    /\ url' = u
                    /\ elapsed' = elapsed + 2000
               ELSE /\ Throw(NoElement)
                    /\ last' = "submit:none"
                    /\ UNCHANGED <<url, elapsed>>
     \/ /\ Throw(ProtocolError)
        /\ UNCHANGED <<last, url, elapsed, dom>>
  /\ UNCHANGED <<typed, loginReturned>>
  /\ submitFrame

\* legacy: Promise.all([waitForNavigation({timeout: 60000}), click(submit)])
performLogin_submit_legacy ==
  /\ pc = "G_submit"
  /\ \/ \E u \in Urls :
          /\ Goto("L_verifyOrigin")
          /\ last' = "submit:selector"
          /\ url' = u
          /\ elapsed' = elapsed + Wait(LoginNavTimeout)
     \/ /\ Throw(NoElement)
        /\ last' = "submit:none"
        /\ UNCHANGED <<url, elapsed>>
     \/ /\ Throw(NavTimeout)
        /\ last' = "submit:selector"
        /\ url' = url
        /\ elapsed' = elapsed + LoginNavTimeout
  /\ UNCHANGED <<typed, loginReturned>>
  /\ loginFrame

\* window.location.href.includes('source.tandemdiabetes.com')
OnOrigin(u) == includes(u, OriginHost)

performLogin_isRedirected ==
  /\ pc = "L_isRedirected"
  /\ \/ Goto(IF OnOrigin(url) THEN "L_verifyOrigin" ELSE "L_waitNav2")
     \/ Throw(ProtocolError)
  /\ dom' = NoDom
  /\ UNCHANGED <<url, typed, loginReturned, last, elapsed>>
  /\ submitFrame

\* await page.waitForNavigation({timeout: 60000})
performLogin_waitForOrigin ==
  /\ pc = "L_waitNav2"
  /\ \/ \E u \in Urls :
          /\ Goto("L_verifyOrigin")
          /\ url' = u
          /\ elapsed' = elapsed + Wait(LoginNavTimeout)
     \/ /\ Throw(NavTimeout)
        /\ url' = url
        /\ elapsed' = elapsed + LoginNavTimeout
  /\ UNCHANGED <<typed, loginReturned, last>>
  /\ loginFrame

\* if (!newUrl.includes('source.tandemdiabetes.com')) throw; else return
performLogin_verifyOrigin ==
  /\ pc = "L_verifyOrigin"
  /\ IF OnOrigin(url)
       THEN Goto("D_goto") /\ loginReturned' = TRUE
       ELSE /\ Throw(Err("Login failed - did not redirect back to source.tandemdiabetes.com"))
            /\ loginReturned' = FALSE
  /\ UNCHANGED <<url, typed, last, elapsed>>
  /\ loginFrame

performLogin ==
  \/ performLogin_goto
  \/ performLogin_cookie
  \/ performLogin_countrySelector
  \/ performLogin_countryClick
  \/ performLogin_countrySelect
  \/ performLogin_languageClick
  \/ performLogin_languageSelect
  \/ performLogin_continue
  \/ performLogin_isOnLoginPage
  \/ performLogin_waitForSso
  \/ performLogin_waitForSso_legacy
  \/ performLogin_verifySso
  \/ performLogin_username
  \/ performLogin_next
  \/ performLogin_password
  \/ performLogin_password_legacy
  \/ performLogin_submit
  \/ performLogin_submit_legacy
  \/ performLogin_isRedirected
  \/ performLogin_waitForOrigin
  \/ performLogin_verifyOrigin

(***************************************************************************)
(* downloadReport                                                          *)
(***************************************************************************)
scrapeFrame ==
  UNCHANGED <<rev, reportDays, browser, browserOpen, closeCalls, result,
              escaped, slow, typed, loginReturned, dom, routeVars>>

\* await page.goto('https://source.tandemdiabetes.com/reports/timeline')
downloadReport_goto ==
  /\ pc = "D_goto"
  /\ \/ /\ Goto("D_range")
        /\ url' = OriginReports
        /\ elapsed' = elapsed + Wait(GotoTimeout)
     \/ /\ Throw(NavTimeout)
        /\ url' = url
        /\ elapsed' = elapsed + GotoTimeout
  /\ UNCHANGED <<last, downloadVars>>
  /\ scrapeFrame

\* The option the date-range step asks the page for: the current revision
\* looks for the text '1 Week' whatever reportDays is, the legacy revision
\* selects the option whose value is String(reportDays).
RangeWanted(days) ==
  IF rev = "current" THEN "range:1 Week" ELSE "range:reportDays"

\* try { find the control, open it, select the option } catch { warn };
\* then the settle delay (2000 ms, legacy 3000 ms)
SettleDelay == IF rev = "current" THEN 2000 ELSE 3000

\* (mutant) an interaction that throws is not caught
RangeStep_fatal(outcome) ==
  IF outcome = "range:error" THEN Throw(ProtocolError) ELSE Goto("D_cdp")

\* try { ... } catch (error) { console.warn(...) }: whatever the step found
\* or threw, the function goes on
RangeStep(outcome) == Goto("D_cdp")

downloadReport_range ==
  /\ pc = "D_range"
  /\ \/ /\ RangeStep("range:absent")
        /\ last' = "range:absent"
        /\ elapsed' = elapsed + SettleDelay
     \/ /\ RangeStep(RangeWanted(reportDays))
        /\ last' = RangeWanted(reportDays)
        /\ elapsed' = elapsed + (IF rev = "current" THEN 2000 ELSE 0) + SettleDelay
     \/ /\ rev = "current"
        /\ RangeStep("range:nomatch")
        /\ last' = "range:nomatch"
        /\ elapsed' = elapsed + 1000 + SettleDelay
     \/ /\ RangeStep("range:error")
        /\ last' = "range:error"
        /\ elapsed' = elapsed + SettleDelay
  /\ UNCHANGED <<url, downloadVars>>
  /\ scrapeFrame

\* createCDPSession, Page.setDownloadBehavior, client.on('Page.downloadProgress')
downloadReport_capture ==
  /\ pc = "D_cdp"
  /\ \/ /\ Goto("D_export")
        /\ captureOn' = TRUE
     \/ /\ Throw(ProtocolError)
        /\ captureOn' = captureOn
  /\ UNCHANGED <<url, last, elapsed, exportClicked, downloadedFile, tmp, waited,
                 filename, buffer, unlinkCalls>>
  /\ scrapeFrame

ExportMissing == Err("Could not find Export button")

\* (mutant) a missing export control is passed over
ExportStep_lenient(clicked) == Goto("D_modal")

\* if (!exportButtonClicked) throw new Error('Could not find Export button')
ExportStep(clicked) ==
  IF clicked THEN Goto("D_modal") ELSE Throw(ExportMissing)

\* click the first button or link whose text includes 'Export'
downloadReport_export ==
  /\ pc = "D_export"
  /\ \/ /\ ExportStep(TRUE)
        /\ last' = "export:clicked"
        /\ exportClicked' = TRUE
     \/ /\ ExportStep(FALSE)
        /\ last' = "export:absent"
        /\ exportClicked' = exportClicked
     \/ /\ Throw(ProtocolError)
        /\ UNCHANGED <<last, exportClicked>>
  /\ UNCHANGED <<url, elapsed, captureOn, downloadedFile, tmp, waited,
                 filename, buffer, unlinkCalls>>
  /\ scrapeFrame

\* delay(1000); click 'Export' inside a dialog if there is one;
\* then startTime = Date.now()
downloadReport_modal ==
  /\ pc = "D_modal"
  /\ \/ \E modal \in BOOLEAN :
          /\ Goto("D_wait")
          /\ last' = IF modal THEN "modal:clicked" ELSE "modal:absent"
     \/ /\ Throw(ProtocolError)
        /\ last' = last
  /\ elapsed' = elapsed + 1000
  /\ waited' = 0
  /\ UNCHANGED <<url, captureOn, exportClicked, downloadedFile, tmp, filename,
                 buffer, unlinkCalls>>
  /\ scrapeFrame

\* The moments (of the wait loop's clock) at which the download may complete:
\* before the first check, after the first sleep, during the last sleep.
CompletionTimes == {0, PollInterval, DownloadWait}

\* (mutant) no handler is listening when the event arrives
downloadProgress_unregistered(completed) == downloadedFile

\* client.on('Page.downloadProgress', event => { if (event.state ===
\* 'completed') downloadedFile = event }): the value of downloadedFile after
\* an event, which the handler sees only once it is registered
downloadProgress(completed) ==
  IF captureOn /\ completed THEN OwnFile ELSE downloadedFile

\* The browser finishes the download, at any moment after the click: during
\* the delay before the modal check or during the wait loop.  The file is
\* in /tmp and the browser sends 'Page.downloadProgress' with state
\* 'completed' to the session, or sends nothing to it (the file alone
\* appears).
downloadCompleted ==
  /\ pc \in {"D_modal", "D_wait"}
  /\ exportClicked
  /\ OwnFile \notin DOMAIN tmp
  /\ filename = "null"
  /\ waited \in CompletionTimes
  /\ \E bytes \in OwnContents, completed \in BOOLEAN :
       /\ tmp' = (OwnFile :> bytes) @@ tmp
       /\ downloadedFile' = downloadProgress(completed)
       /\ last' = IF completed THEN "download:completed" ELSE "download:silent"
  /\ UNCHANGED <<pc, caught, url, elapsed, captureOn, exportClicked,
                 waited, filename, buffer, unlinkCalls>>
  /\ scrapeFrame

\* One pass of: while (!filename && Date.now() - startTime < 60000) {...}
\* current: the CDP flag, then the recent CSV_*.csv files of /tmp (the most
\* recently modified one), then delay(500); legacy: the CDP flag only.
RecentCsvFiles == IF rev = "current" THEN DOMAIN tmp ELSE {}

downloadReport_poll ==
  /\ pc = "D_wait"
  /\ filename = "null"
  /\ waited < DownloadWait
  /\ IF downloadedFile # "null"
       THEN /\ filename' = downloadedFile
            /\ waited' = waited
       ELSE IF RecentCsvFiles # {}
         THEN /\ \E f \in RecentCsvFiles : filename' = f
              /\ waited' = waited
         ELSE /\ filename' = filename
              /\ waited' = waited + PollInterval
  /\ UNCHANGED <<pc, caught, url, last, elapsed, captureOn, exportClicked,
                 downloadedFile, tmp, buffer, unlinkCalls>>
  /\ scrapeFrame

\* (mutant) the test after the loop left out
GotFile_assumed == TRUE

\* the loop has ended: if (!filename) throw ...; legacy tests downloadedFile
\* and takes the name from it
GotFile ==
  IF rev = "current" THEN filename # "null" ELSE downloadedFile # "null"

downloadReport_afterWait ==
  /\ pc = "D_wait"
  /\ filename # "null" \/ waited >= DownloadWait
  /\ IF GotFile
       THEN /\ Goto("D_read")
            /\ filename' = IF rev = "current" THEN filename ELSE downloadedFile
       ELSE /\ Throw(Err("Download did not complete within 60 seconds"))
            /\ filename' = filename
  /\ elapsed' = elapsed + waited
  /\ UNCHANGED <<url, last, captureOn, exportClicked, downloadedFile, tmp,
                 waited, buffer, unlinkCalls>>
  /\ scrapeFrame

\* const buffer = await fs.readFile(path.join('/tmp', filename))
downloadReport_read ==
  /\ pc = "D_read"
  /\ \/ /\ filename \in DOMAIN tmp
        /\ Goto("D_unlink")
        /\ buffer' = tmp[filename]
     \/ /\ Throw(ReadError)
        /\ buffer' = buffer
  /\ UNCHANGED <<url, last, elapsed, captureOn, exportClicked, downloadedFile,
                 tmp, waited, filename, unlinkCalls>>
  /\ scrapeFrame

\* try { await fs.unlink(filePath) } catch { warn }; return buffer
downloadReport_unlink ==
  /\ pc = "D_unlink"
  /\ Goto("S_close")
  /\ unlinkCalls' = unlinkCalls \cup {filename}
  /\ \/ tmp' = Without(tmp, filename)
     \/ tmp' = tmp
  /\ UNCHANGED <<url, last, elapsed, captureOn, exportClicked, downloadedFile,
                 waited, filename, buffer>>
  /\ scrapeFrame

downloadReport ==
  \/ downloadReport_goto
  \/ downloadReport_range
  \/ downloadReport_capture
  \/ downloadReport_export
  \/ downloadReport_modal
  \/ downloadCompleted
  \/ downloadReport_poll
  \/ downloadReport_afterWait
  \/ downloadReport_read
  \/ downloadReport_unlink

(***************************************************************************)
(* scrapeTandemSource: the end of the try block and the catch block        *)
(***************************************************************************)
\* What browser.close() leaves behind: closed when it resolves; unknown when
\* it rejects.
AfterClose(ok) == IF ok THEN {FALSE} ELSE {FALSE, browserOpen}

\* try block: await browser.close(); browser = null; return {success: true..}
\* A rejection of close() is thrown into the catch block, with `browser`
\* still set.
closeAfterSuccess ==
  /\ pc = "S_close"
  /\ closeCalls' = closeCalls + 1
  /\ \E ok \in BOOLEAN :
       /\ browserOpen' \in AfterClose(ok)
       /\ IF ok
            THEN /\ browser' = "null"
                 /\ result' \in SuccessResults(buffer, reportDays)
                 /\ Goto("done")
            ELSE /\ Throw(CloseError)
                 /\ UNCHANGED <<browser, result>>
  /\ UNCHANGED <<rev, reportDays, url, typed, escaped, loginReturned, last,
                 slow, elapsed, dom, downloadVars, routeVars>>

\* (mutant) close() in the catch block without its own try/catch: the
\* rejection leaves scrapeTandemSource
catchCloseRejected_unguarded ==
  /\ result' = NoResult
  /\ escaped' = TRUE

\* catch block, when the guarded close() rejects: the inner try/catch logs
\* the rejection and the failure result is returned all the same
catchCloseRejected ==
  /\ result' = FailureResult(caught)
  /\ escaped' = FALSE

\* catch (error) { if (browser) { try { await browser.close() } catch {} }
\*                 return {success: false, error: ...} }
catchBlock ==
  /\ pc = "catch"
  /\ pc' = "done"
  /\ IF browser # "null"
       THEN /\ closeCalls' = closeCalls + 1
            /\ \E ok \in BOOLEAN :
                 /\ browserOpen' \in AfterClose(ok)
                 /\ IF ok
                      THEN result' = FailureResult(caught) /\ escaped' = FALSE
                      ELSE catchCloseRejected
       ELSE /\ result' = FailureResult(caught)
            /\ UNCHANGED <<closeCalls, browserOpen, escaped>>
  /\ dom' = NoDom
  /\ UNCHANGED <<rev, reportDays, browser, url, typed, caught, loginReturned,
                 last, slow, elapsed, downloadVars, routeVars>>

scrapeTandemSource ==
  \/ createBrowser
  \/ newPage
  \/ performLogin
  \/ downloadReport
  \/ closeAfterSuccess
  \/ catchBlock

Next == scrapeTandemSource

Spec == Init /\ [][Next]_vars

\* The event loop runs every continuation that is ready: timers fire and
\* awaited promises settle, so the call keeps taking steps until it returns.
\* Every step of the call changes its position, the wait loop's clock, the
\* loop's variable or /tmp.
progressVars == <<pc, waited, filename, tmp>>
SpecFair == Spec /\ WF_progressVars(Next)

(***************************************************************************)
(* performSync, one call per request r.  The request's pc is the await the *)
(* call is suspended at.                                                   *)
(***************************************************************************)
routeFrame == UNCHANGED <<scraperVars, downloadVars, visit, cleanup>>

SyncFailure(msg) == [success |-> FALSE, error |-> msg]
SyncSuccess == [success |-> TRUE, error |-> Absent]

\* validateScraperConfig(): TANDEM_USERNAME and TANDEM_PASSWORD are set
validateScraperConfig == env.TANDEM # Unset

\* The results scrapeTandemSource returns to performSync
DefaultReportDays == 2
ScraperSuccesses ==
  {SuccessResult(b, DefaultReportDays, Transition + 8, "UTC") :
     b \in OwnContents \cup {StaleBytes}}
ScraperFailures == {FailureResult(e) : e \in {NavTimeout, NonError}}
ScraperResults(ok) == IF ok THEN ScraperSuccesses ELSE ScraperFailures

\* performSync up to its first await: the configuration check, then either
\* storeSyncStatus(failure) or the call of scrapeTandemSource
performSync_begin(q) ==
  IF validateScraperConfig
    THEN [q EXCEPT !.pc = "scraping", !.reportDays = ReportDaysOf(env)]
    ELSE [q EXCEPT !.pc = "status",
                        !.sync = SyncFailure("Missing required configuration")]

\* (mutant) the scraper's result is stored whatever it is
ScrapeFailed_ignored(sr) == FALSE

\* if (!scraperResult.success || !scraperResult.csvBuffer)
\* An empty Buffer is truthy.
ScrapeFailed(sr) == sr.success = FALSE \/ sr.csvBuffer = Absent

\* scrapeTandemSource has returned: a failed scrape -> failure status;
\* else storeReport(scraperResult.csvBuffer).
performSync_scraped(r) ==
  /\ req[r].pc = "scraping"
  /\ \E ok \in BOOLEAN : \E sr \in ScraperResults(ok) :
       req' = [req EXCEPT ![r] =
                 IF ScrapeFailed(sr)
                   THEN [@ EXCEPT !.pc = "status", !.scraped = sr,
                                  !.sync = SyncFailure(sr.error)]
                   ELSE [@ EXCEPT !.pc = "storing", !.scraped = sr]]
  /\ UNCHANGED <<syncInProgress, env, reports, syncStatus>>
  /\ routeFrame

\* (mutant) the failure is returned without storing the status
catchBlockOfSync_returns(q) ==
  [q EXCEPT !.pc = "returned", !.sync = SyncFailure("Failed to store report")]

\* catch (error) { result = {success: false, error: error.message, ...};
\* await storeSyncStatus(result); return result }
catchBlockOfSync(q) ==
  [q EXCEPT !.pc = "status", !.sync = SyncFailure("Failed to store report")]

\* storeReport resolved (report written) or rejected (caught by performSync)
performSync_stored(r) ==
  /\ req[r].pc = "storing"
  /\ \/ /\ reports' = reports + 1
        /\ req' = [req EXCEPT ![r].pc = "status", ![r].sync = SyncSuccess]
     \/ /\ reports' = reports
        /\ req' = [req EXCEPT ![r] = catchBlockOfSync(req[r])]
  /\ UNCHANGED <<syncInProgress, env, syncStatus>>
  /\ routeFrame

\* storeSyncStatus(result) resolved; it logs a failed write and never
\* rejects.  performSync returns result.  `stores` counts the calls of
\* storeSyncStatus this call of performSync made.
performSync_statusStored(r) ==
  /\ req[r].pc = "status"
  /\ \/ syncStatus' = req[r].sync
     \/ syncStatus' = syncStatus
  /\ req' = [req EXCEPT ![r].pc = "returned", ![r].stores = @ + 1]
  /\ UNCHANGED <<syncInProgress, env, reports>>
  /\ routeFrame

\* The calls of performSync that have started and not yet returned
InSync(r) == req[r].pc \in {"scraping", "storing", "status"}
Running == {r \in Requests : InSync(r)}

(***************************************************************************)
(* The entry points.  A handler runs without interruption from the arrival *)
(* of the request to its first await.                                      *)
(***************************************************************************)
\* The JSON body of a response: 401 from requireApiKey (from the cron route
\* without a success field), 409, or the answer after performSync returned
BodyFor(kind, code, syncResult) ==
  CASE code = 401 ->
         CASE kind = "cron" ->
                [success |-> Absent, error |-> "Unauthorized", data |-> NoSync]
           [] kind = "dashboard" ->
                [success |-> FALSE, error |-> "Unauthorized - please login again",
                 data |-> NoSync]
           [] OTHER ->
                [success |-> FALSE,
                 error |-> "Unauthorized - Invalid or missing API key",
                 data |-> NoSync]
    [] code = 409 -> [success |-> FALSE, error |-> "Sync already in progress",
                      data |-> NoSync]
    [] OTHER -> [success |-> syncResult.success, error |-> Absent,
                 data |-> syncResult]

Answer(q, kind, code) ==
  [q EXCEPT !.kind = kind, !.pc = "done", !.status = code,
            !.body = BodyFor(kind, code, q.sync)]

Respond(r, kind, code) == req' = [req EXCEPT ![r] = Answer(req[r], kind, code)]

\* (mutant) the status does not follow the result
StatusOf_always200(syncResult) == 200

\* status: result.success ? 200 : 500
StatusOf(syncResult) == IF syncResult.success = TRUE THEN 200 ELSE 500

\* validateApiKey: API_KEY set, and the key in 'Authorization: Bearer ' or,
\* when that header is absent or of another scheme, in 'X-API-Key'
Headers == [authorization : {Unset, "Bearer key", "Bearer wrong", "Basic key"},
            xApiKey : {Unset, "key", "wrong"}]

BearerToken(h) ==
  CASE h = "Bearer key" -> "key"
    [] h = "Bearer wrong" -> "wrong"
    [] h = "Bearer secret" -> "secret"
    [] OTHER -> Unset

validateApiKey(request) ==
  IF env.API_KEY = Unset THEN FALSE
  ELSE IF BearerToken(request.authorization) # Unset
    THEN BearerToken(request.authorization) = env.API_KEY
  ELSE IF request.xApiKey # Unset
    THEN request.xApiKey = env.API_KEY
  ELSE FALSE

\* (mutant) the in-progress check left out
SyncBusy_unchecked == FALSE

\* if (syncInProgress) return 409
SyncBusy == syncInProgress

\* POST /api/sync, from the arrival to the await of performSync
POST(r) ==
  /\ req[r].pc = "idle"
  /\ \E request \in Headers :
       LET q == [req[r] EXCEPT !.request = request] IN
       IF ~validateApiKey(request)
         THEN /\ req' = [req EXCEPT ![r] = Answer(q, "POST", 401)]
              /\ UNCHANGED syncInProgress
       ELSE IF SyncBusy
         THEN /\ req' = [req EXCEPT ![r] = Answer(q, "POST", 409)]
              /\ UNCHANGED syncInProgress
       ELSE /\ syncInProgress' = TRUE
            /\ req' = [req EXCEPT ![r] = [performSync_begin(q) EXCEPT !.kind = "POST"]]
  /\ UNCHANGED <<env, reports, syncStatus>>
  /\ routeFrame

\* (mutant) no finally block: the flag stays as it is
finallyBlock_missing == syncInProgress

\* finally { syncInProgress = false }: the value of the flag afterwards
finallyBlock == FALSE

\* POST /api/sync after performSync returned: the response, then
\* finally { syncInProgress = false }
POST_respond(r) ==
  /\ req[r].kind = "POST"
  /\ req[r].pc = "returned"
  /\ Respond(r, "POST", StatusOf(req[r].sync))
  /\ syncInProgress' = finallyBlock
  /\ UNCHANGED <<env, reports, syncStatus>>
  /\ routeFrame

\* GET /api/cron: if (cronSecret && authHeader !== `Bearer ${cronSecret}`) 401
CronHeaders == [authorization : {Unset, "Bearer secret", "Bearer wrong",
                                 "Bearer key"},
                xApiKey : {Unset, "key"}]

CronAuthorized(authHeader) ==
  env.CRON_SECRET = Unset \/ BearerToken(authHeader) = env.CRON_SECRET

GET_cron(r) ==
  /\ req[r].pc = "idle"
  /\ \E request \in CronHeaders :
       LET q == [req[r] EXCEPT !.request = request] IN
       IF ~CronAuthorized(request.authorization)
         THEN req' = [req EXCEPT ![r] = Answer(q, "cron", 401)]
         ELSE req' = [req EXCEPT ![r] = [performSync_begin(q) EXCEPT !.kind = "cron"]]
  /\ UNCHANGED <<syncInProgress, env, reports, syncStatus>>
  /\ routeFrame

GET_cron_respond(r) ==
  /\ req[r].kind = "cron"
  /\ req[r].pc = "returned"
  /\ Respond(r, "cron", StatusOf(req[r].sync))
  /\ UNCHANGED <<syncInProgress, env, reports, syncStatus>>
  /\ routeFrame

\* validateSessionToken: the token's first part parses to a number (isNaN
\* otherwise) and is at most SESSION_MAX_AGE seconds old
Cookies ==
  {NoCookie,
   [numeric |-> TRUE, timestamp |-> Now - 1000, issued |-> TRUE],
   [numeric |-> TRUE, timestamp |-> Now - (SESSION_MAX_AGE + 1) * 1000,
    issued |-> TRUE],
   [numeric |-> TRUE, timestamp |-> Now + 1000, issued |-> FALSE]}

validateSessionTokenAt(token, now) ==
  IF token = NoCookie THEN FALSE
  ELSE IF ~token.numeric THEN FALSE
  ELSE (now - token.timestamp) <= SESSION_MAX_AGE * 1000

validateSessionToken(token) == validateSessionTokenAt(token, Now)

\* triggerSyncAction, from the call to the await of performSync
triggerSyncAction(r) ==
  /\ req[r].pc = "idle"
  /\ \E cookie \in Cookies :
       LET q == [req[r] EXCEPT !.cookie = cookie] IN
       IF ~validateSessionToken(cookie)
         THEN req' = [req EXCEPT ![r] = Answer(q, "dashboard", 401)]
         ELSE req' = [req EXCEPT ![r] =
                        [performSync_begin(q) EXCEPT !.kind = "dashboard"]]
  /\ UNCHANGED <<syncInProgress, env, reports, syncStatus>>
  /\ routeFrame

triggerSyncAction_return(r) ==
  /\ req[r].kind = "dashboard"
  /\ req[r].pc = "returned"
  /\ Respond(r, "dashboard", StatusOf(req[r].sync))
  /\ UNCHANGED <<syncInProgress, env, reports, syncStatus>>
  /\ routeFrame

NextRoutes ==
  \E r \in Requests :
    \/ POST(r)
    \/ POST_respond(r)
    \/ GET_cron(r)
    \/ GET_cron_respond(r)
    \/ triggerSyncAction(r)
    \/ triggerSyncAction_return(r)
    \/ performSync_scraped(r)
    \/ performSync_stored(r)
    \/ performSync_statusStored(r)

\* The process before any request, in one of the deployments
InitRoutesSpec ==
  /\ InitScraper
  /\ rev = "current" /\ reportDays = 7 /\ ~slow /\ tmp = NoFiles
  /\ syncInProgress = FALSE
  /\ env \in Envs
  /\ req = [r \in Requests |-> NoRequest]
  /\ reports = 0
  /\ syncStatus = NoSync
  /\ visit = NoVisit
  /\ cleanup = NoCleanup

SpecRoutes == InitRoutesSpec /\ [][NextRoutes]_vars

\* Every request that has arrived is served to its end: each await of a
\* handler resolves (scrapeTandemSource and the storage calls return).  The
\* deployments are those with API_KEY set, with and without the scraper's
\* credentials.
InitRoutesFair ==
  /\ InitRoutesSpec
  /\ env \in {FullEnv, [FullEnv EXCEPT !.TANDEM = Unset]}

SpecRoutesFair ==
  InitRoutesFair /\ [][NextRoutes]_vars /\ WF_routeVars(NextRoutes)

(***************************************************************************)
(* The pages / (Home) and /login (LoginPage), and logoutAction.  A visit   *)
(* is one browser following the redirects the server answers with.        *)
(***************************************************************************)
MaxRedirects == 3
MaxTicks == 1

\* a token createSession issued exactly SESSION_MAX_AGE seconds before Now
ExpiringCookie ==
  [numeric |-> TRUE, timestamp |-> Now - SESSION_MAX_AGE * 1000, issued |-> TRUE]
PageCookies == Cookies \cup {ExpiringCookie}

\* isDashboardAuthRequired(): !!process.env.DASHBOARD_PASSWORD
isDashboardAuthRequired == env.DASHBOARD_PASSWORD # Unset

\* const isConfigured = !!apiKey && configValidation.valid
isConfigured == env.API_KEY # Unset /\ validateScraperConfig

\* validateSession(): the cookie of the request, at the time of the request
validateSession == validateSessionTokenAt(visit.cookie, visit.now)

\* (mutant) a visitor without a valid session is sent to /login whether or
\* not authentication is required
Home_alwaysAuth ==
  IF ~isConfigured THEN "SetupWizard"
  ELSE IF ~validateSession THEN "/login"
  ELSE "Dashboard"

\* Home: the component rendered, or the page redirected to
Home ==
  IF ~isConfigured THEN "SetupWizard"
  ELSE IF isDashboardAuthRequired /\ ~validateSession THEN "/login"
  ELSE "Dashboard"

\* LoginPage: the component rendered, or the page redirected to
LoginPage ==
  IF ~isDashboardAuthRequired THEN "/"
  ELSE IF validateSession THEN "/"
  ELSE "Login"

Pages == {"/", "/login"}

\* what the browser does with the answer: show the component, or request
\* the page it is redirected to
Follow(answer) ==
  IF answer \in Pages
    THEN visit' = [visit EXCEPT !.page = answer, !.redirects = @ + 1]
    ELSE visit' = [visit EXCEPT !.rendered = answer]

pageFrame ==
  UNCHANGED <<scraperVars, downloadVars, syncInProgress, env, req, reports,
              syncStatus, cleanup>>

GET_home ==
  /\ visit.rendered = "none" /\ visit.page = "/"
  /\ visit.redirects < MaxRedirects
  /\ Follow(Home)
  /\ pageFrame

GET_login ==
  /\ visit.rendered = "none" /\ visit.page = "/login"
  /\ visit.redirects < MaxRedirects
  /\ Follow(LoginPage)
  /\ pageFrame

\* time passes between an answer and the browser's next request
Tick ==
  /\ visit.rendered = "none"
  /\ visit.now < Now + MaxTicks * 1000
  /\ visit' = [visit EXCEPT !.now = @ + 1000]
  /\ pageFrame

\* logoutAction: destroySession() deletes the cookie; redirect('/login')
logoutAction ==
  /\ visit.rendered = "Dashboard"
  /\ visit.cookie # NoCookie
  /\ visit.loggedOut = NoCookie
  /\ visit' = [visit EXCEPT !.cookie = NoCookie, !.loggedOut = visit.cookie,
                            !.page = "/login", !.rendered = "none",
                            !.redirects = 0]
  /\ pageFrame

\* a later request to / that presents the token the cookie held before
\* the logout
GET_replayed ==
  /\ visit.loggedOut # NoCookie
  /\ visit.cookie = NoCookie
  /\ visit.rendered # "none"
  /\ visit' = [visit EXCEPT !.cookie = visit.loggedOut, !.page = "/",
                            !.rendered = "none", !.redirects = 0]
  /\ pageFrame

NextPages ==
  \/ GET_home
  \/ GET_login
  \/ Tick
  \/ logoutAction
  \/ GET_replayed

\* A browser, with some cookie or none, requests / or /login of one of the
\* deployments
InitPages ==
  /\ InitScraper
  /\ rev = "current" /\ reportDays = 7 /\ ~slow /\ tmp = NoFiles
  /\ syncInProgress = FALSE
  /\ env \in Envs
  /\ req = [r \in Requests |-> NoRequest]
  /\ reports = 0
  /\ syncStatus = NoSync
  /\ cleanup = NoCleanup
  /\ \E page \in Pages, cookie \in PageCookies :
       visit = [NoVisit EXCEPT !.page = page, !.cookie = cookie]

\* the server answers every request
SpecPages ==
  InitPages /\ [][NextPages]_vars /\ WF_visit(GET_home \/ GET_login)

(***************************************************************************)
(* cleanupOldReports.  In local mode listReports reads the directory       *)
(* local-storage/reports; deleteReport calls del() of the blob store in    *)
(* both modes.                                                             *)
(***************************************************************************)
MaxReports == 3
MaxKeep == 2
StorageModes == {"blob", "local"}

\* reports.sort((a, b) => b.uploadedAt - a.uploadedAt): newest first
RECURSIVE NewestFirst(_)
NewestFirst(set) ==
  IF set = {} THEN <<>>
  ELSE LET newest == CHOOSE x \in set : \A y \in set : y <= x
       IN  <<newest>> \o NewestFirst(set \ {newest})

\* array.slice(start), start >= 0
slice(array, start) == SubSeq(array, start + 1, Len(array))

\* what del(filename) removes: a blob of the blob store.  The files of the
\* local directory are not blobs.
del(store, mode, name) ==
  IF mode = "blob" THEN store \ {name} ELSE store

storageFrame ==
  UNCHANGED <<scraperVars, downloadVars, syncInProgress, env, req, reports,
              syncStatus, visit>>

\* const reports = await listReports(); if (reports.length <= keepCount)
\* return 0; reportsToDelete = reports.slice(keepCount).  In blob mode
\* listReports may throw: catch { return 0 }
cleanupOldReports_list ==
  /\ cleanup.pc = "idle"
  /\ \/ LET listing == NewestFirst(cleanup.store) IN
        cleanup' =
          IF Len(listing) <= cleanup.keepCount
            THEN [cleanup EXCEPT !.pc = "returned", !.listed = TRUE,
                                 !.returned = 0]
            ELSE [cleanup EXCEPT !.pc = "deleting", !.listed = TRUE,
                                 !.reportsToDelete =
                                    slice(listing, cleanup.keepCount)]
     \/ /\ cleanup.mode = "blob"
        /\ cleanup' = [cleanup EXCEPT !.pc = "returned", !.returned = 0]
  /\ storageFrame

\* try { await deleteReport(report.filename); deletedCount++ } catch { log }
cleanupOldReports_delete ==
  /\ cleanup.pc = "deleting"
  /\ cleanup.reportsToDelete # <<>>
  /\ LET report == Head(cleanup.reportsToDelete) IN
     \/ cleanup' = [cleanup EXCEPT
                      !.store = del(cleanup.store, cleanup.mode, report),
                      !.deletedCount = @ + 1,
                      !.reportsToDelete = Tail(@)]
     \/ cleanup' = [cleanup EXCEPT !.failures = @ + 1,
                                   !.reportsToDelete = Tail(@)]
  /\ storageFrame

\* return deletedCount
cleanupOldReports_return ==
  /\ cleanup.pc = "deleting"
  /\ cleanup.reportsToDelete = <<>>
  /\ cleanup' = [cleanup EXCEPT !.pc = "returned",
                                !.returned = cleanup.deletedCount]
  /\ storageFrame

cleanupOldReports ==
  \/ cleanupOldReports_list
  \/ cleanupOldReports_delete
  \/ cleanupOldReports_return

\* cleanupOldReports(keepCount) is called in one of the storage modes, with
\* some reports in the store
InitStorage ==
  /\ InitScraper
  /\ rev = "current" /\ reportDays = 7 /\ ~slow /\ tmp = NoFiles
  /\ syncInProgress = FALSE
  /\ env = FullEnv
  /\ req = [r \in Requests |-> NoRequest]
  /\ reports = 0
  /\ syncStatus = NoSync
  /\ visit = NoVisit
  /\ \E mode \in StorageModes, store \in SUBSET (1..MaxReports),
        keepCount \in 0..MaxKeep :
       cleanup = [NoCleanup EXCEPT !.mode = mode, !.store = store,
                                   !.initial = store, !.keepCount = keepCount]

SpecStorage == InitStorage /\ [][cleanupOldReports]_vars

(***************************************************************************)
(* The claims.                                                             *)
(***************************************************************************)
\* createBrowser resolved in this call
Launched == pc # "start" /\ caught # LaunchError

\* C1: a call of scrapeTandemSource that launched a browser has called
\* browser.close() exactly once when it returns, on every exit path, also
\* when close() itself throws.
C1_CloseExactlyOnce ==
  (pc = "done" /\ Launched) => closeCalls = 1

\* C2: no exception leaves scrapeTandemSource: whatever the automation layer
\* throws, the call returns a ScraperResult, and a failure is returned as
\* {success: false, error: <the message of what was thrown>}.
C2_NoExceptionEscapes ==
  /\ ~escaped
  /\ pc = "done" =>
       /\ result.success \in BOOLEAN
       /\ caught # NoError =>
            /\ result.success = FALSE
            /\ result.error = ErrorMessage(caught)
            /\ result.csvBuffer = Absent

\* C2 witness: a step failed, close() in the catch block rejected too (the
\* browser is still running) and the call returned the step's failure.
C2_Witness ==
  /\ pc = "done"
  /\ browserOpen
  /\ closeCalls = 1
  /\ result = FailureResult(NavTimeout)

\* C3: a rejection of browser.close() never changes the result: with the
\* file bytes read the call returns success with those bytes, and after a
\* failed step the error returned is that step's message.
C3_CloseErrorKeepsResult ==
  pc = "done" =>
    /\ buffer # NoBuffer => result \in SuccessResults(buffer, reportDays)
    /\ (caught # NoError /\ caught # CloseError) => result = FailureResult(caught)

\* C4: the call returns no later than the overall timeout (180000 ms) after
\* it started.
C4_OverallTimeout ==
  pc = "done" => elapsed <= DefaultTimeout

\* C5: at any moment at most one performSync run is in flight, whichever
\* entry points the requests came through.
C5_AtMostOneSync ==
  Cardinality(Running) <= 1

PostRunning == {r \in Running : req[r].kind = "POST"}

\* C6: two POST /api/sync handlers never run performSync at the same time,
\* and a POST /api/sync that arrives while an earlier one is running
\* performSync is answered 409 (or 401) without starting performSync.
C6_PostExclusive ==
  /\ [](Cardinality(PostRunning) <= 1)
  /\ [](\A r \in Requests : req[r].status = 409 => req[r].sync = NoSync)
  /\ [][\A r \in Requests :
          (PostRunning # {} /\ req[r].pc = "idle" /\ req'[r].kind = "POST")
            => (req'[r].status \in {401, 409} /\ req'[r].pc = "done")]_vars

\* C6 witness: a POST was answered 409 while another POST runs performSync.
C6_Witness ==
  \E r \in Requests, q \in PostRunning :
    req[r].kind = "POST" /\ req[r].status = 409

\* C7: the shape of the credential form, two-step or combined, never ends
\* the run: once the form has been seen, login goes on.
C7_BothFormShapes ==
  last \in FormShapes => caught = NoError

\* C8: the run goes on to the credential steps only on the identity-provider
\* host; on any other host it fails with 'Did not redirect to SSO login
\* page' after a close() of the browser.
C8_NonSsoHostFails ==
  /\ pc = "L_fillUser" => Host(url) = SsoHost
  /\ (pc = "done" /\ result.error = "Did not redirect to SSO login page")
       => closeCalls = 1

\* C9: username and password are typed only into a page whose URL host is
\* sso.tandemdiabetes.com.
C9_CredentialsOnlyOnSsoHost ==
  \A t \in typed : Host(t.url) = SsoHost

\* C10: performLogin returns normally only when the page's URL host is
\* source.tandemdiabetes.com.
C10_ReturnOnlyOnOrigin ==
  (loginReturned /\ pc = "D_goto") => Host(url) = OriginHost

\* C11: performSync calls storeReport only after scrapeTandemSource returned
\* success with a buffer, in a configured deployment: a report is written
\* only by a call that is at storeReport, a call is at storeReport only with
\* such a result, and a call whose configuration check or scrape failed goes
\* to storeSyncStatus with a failure and writes no report.
C11_StoreOnlyAfterSuccess ==
  /\ [](\A r \in Requests :
          /\ req[r].pc = "storing" =>
               /\ validateScraperConfig
               /\ req[r].scraped.success
               /\ req[r].scraped.csvBuffer # Absent
          /\ (req[r].pc \in {"status", "returned"}
                /\ (~validateScraperConfig \/ ~req[r].scraped.success))
               => req[r].sync.success = FALSE)
  /\ [][reports' # reports =>
          \E r \in Requests :
            /\ req[r].pc = "storing"
            /\ req'[r].pc = "status" /\ req'[r].sync.success
            /\ reports' = reports + 1]_vars
  /\ [][\A r \in Requests :
          (req'[r].pc = "status" /\ req'[r].sync.success = FALSE
             /\ req[r].pc \in {"idle", "scraping"})
            => reports' = reports]_vars

\* one call failed in the scrape and wrote nothing, another one stored
C11_Witness ==
  \E r, q \in Requests :
    /\ req[r].pc = "returned" /\ ~req[r].scraped.success
    /\ req[r].scraped \in ScraperFailures
    /\ req[q].pc = "returned" /\ req[q].scraped.success
    /\ req[q].sync = SyncSuccess
    /\ reports = 1

DownloadTimeout == Err("Download did not complete within 60 seconds")

\* C12: when the wait for the download is entered and neither the CDP
\* completion event nor a matching file in /tmp ever appears, the run ends
\* with the failure 'Download did not complete within 60 seconds'; that
\* error is thrown no earlier than 60 seconds into the wait and at most one
\* polling interval later.
C12_DownloadTimeout ==
  /\ [](caught = DownloadTimeout =>
          /\ waited >= DownloadWait
          /\ waited <= DownloadWait + PollInterval)
  /\ ([](tmp = NoFiles /\ downloadedFile = "null") /\ <>(pc = "D_wait"))
       => <>(pc = "done" /\ result = FailureResult(DownloadTimeout))

C12_Witness ==
  /\ pc = "done"
  /\ result = FailureResult(DownloadTimeout)
  /\ exportClicked /\ tmp = NoFiles /\ downloadedFile = "null"
  /\ waited = DownloadWait

CookieOutcomes == {"cookie:clicked", "cookie:absent"}

\* C13: the cookie-consent step can end both ways (button clicked, button
\* absent) on the same page otherwise, and both ways leave the run in the
\* same state but for the record of what the step found and the second it
\* paused: same position, same URL, nothing typed, nothing thrown.  What
\* the run returns is determined by the state the step leaves alone.
C13_CookieStepIdempotent ==
  /\ [](pc = "L_cookie" =>
          \A o \in CookieOutcomes :
            ENABLED (performLogin_cookie /\ last' = o /\ pc' = "L_country"))
  /\ [][(pc = "L_cookie" /\ last' \in CookieOutcomes) =>
          /\ pc' = "L_country"
          /\ caught' = caught
          /\ elapsed' - elapsed = (IF last' = "cookie:clicked" THEN 1000 ELSE 0)
          /\ UNCHANGED <<rev, reportDays, browser, browserOpen, closeCalls,
                          url, typed, result, escaped, loginReturned, slow,
                          dom, downloadVars, routeVars>>]_vars
  /\ [](pc = "done" =>
          result \in {FailureResult(caught)}
                       \cup SuccessResults(buffer, reportDays))

C13_Witness ==
  /\ pc = "L_country"
  /\ last = "cookie:clicked"
  /\ caught = NoError

\* The positions inside the best-effort steps: the cookie-consent click, the
\* locale interstitial up to (not including) its Continue button, and the
\* export confirmation modal
BestEffortSteps ==
  {"L_cookie", "L_country", "L_countryClick", "L_countrySelect",
   "L_langClick", "L_langSelect", "D_modal"}

\* C14: no error raised inside a best-effort step becomes the failure of
\* the run: no step taken from inside one of them enters the catch block of
\* scrapeTandemSource.
C14_BestEffortNeverFails ==
  [][(pc \in BestEffortSteps) => (pc' # "catch")]_vars

\* C15: in the locale interstitial, when the opened dropdown has options
\* but none with the wanted text, the selection step clicks the first
\* option and goes on (country: to the language dropdown, language: to the
\* Continue button); with or without a match the step fails only when the
\* page.evaluate call itself is rejected.
C15_LocaleFallback ==
  /\ [][(pc = "L_countrySelect" /\ last = "options:other") =>
          \/ pc' = "L_langClick" /\ last' = "country:first" /\ caught' = NoError
          \/ pc' = "catch" /\ caught' = ProtocolError]_vars
  /\ [][(pc = "L_langSelect" /\ last = "options:other") =>
          \/ pc' = "L_continue" /\ last' = "language:first" /\ caught' = NoError
          \/ pc' = "catch" /\ caught' = ProtocolError]_vars

\* no country matched, no language matched, and the run is at Continue
C15_Witness ==
  /\ pc = "L_continue"
  /\ last = "language:first"
  /\ caught = NoError

\* C16: once the locale interstitial was detected and no button containing
\* 'Continue' is found, the run fails with 'Could not find Continue button'
\* and types no credential; a run on which the interstitial was not
\* detected goes straight to the login-page check without looking for the
\* button, and the error is raised nowhere but at the Continue step.
C16_ContinueRequired ==
  /\ [](last = "continue:absent" =>
          /\ pc \in {"catch", "done"}
          /\ caught = ContinueMissing
          /\ typed = {}
          /\ pc = "done" => result = FailureResult(ContinueMissing))
  /\ [][(pc = "L_country" /\ last' = "locale:absent") =>
          (pc' = "L_isOnLogin" /\ caught' = NoError)]_vars
  /\ [][(caught' = ContinueMissing /\ caught # ContinueMissing) =>
          (pc = "L_continue")]_vars

C16_Witness ==
  /\ pc = "done"
  /\ last = "continue:absent"
  /\ result = FailureResult(ContinueMissing)
  /\ closeCalls = 1

RangeNotSet == {"range:absent", "range:nomatch", "range:error"}

\* C17: the date-range step is never fatal: whatever it finds (control
\* absent, option not matched, an interaction that throws), its step goes
\* on to the preparation of the export with nothing thrown, the range left
\* at the page's default.
C17_RangeNeverFatal ==
  /\ [][(pc = "D_range") =>
          (pc' = "D_cdp" /\ caught' = NoError
             /\ last' \in RangeNotSet \cup {RangeWanted(reportDays)})]_vars
  /\ [](pc = "D_cdp" => caught = NoError)

C17_Witness ==
  /\ pc = "D_export"
  /\ last = "range:error"
  /\ caught = NoError

\* C18: when no button or link with 'Export' in its text is on the report
\* page, the export step throws 'Could not find Export button' at once: no
\* time passes in the step, nothing was clicked, the download wait is never
\* entered, and the run returns the failure with that message.
C18_ExportMissing ==
  /\ [](last = "export:absent" =>
          /\ pc \in {"catch", "done"}
          /\ caught = ExportMissing
          /\ ~exportClicked
          /\ waited = 0 /\ filename = "null" /\ buffer = NoBuffer
          /\ pc = "done" => result = FailureResult(ExportMissing))
  /\ [][(pc = "D_export" /\ last' = "export:absent") =>
          (pc' = "catch" /\ elapsed' = elapsed)]_vars

C18_Witness ==
  /\ pc = "done"
  /\ last = "export:absent"
  /\ result = FailureResult(ExportMissing)

\* C19: when scrapeTandemSource returns, the file that its download wrote
\* under /tmp has had a deletion attempted: if the file is still there, it
\* was passed to fs.unlink.
C19_TempFileCleaned ==
  (pc = "done" /\ OwnFile \in DOMAIN tmp) => OwnFile \in unlinkCalls

\* C20: whenever scrapeTandemSource returns success, metadata.endDate is
\* not before metadata.startDate and the two are reportDays days apart.
C20_DateRange ==
  (pc = "done" /\ result.success) =>
    /\ result.metadata.endDate >= result.metadata.startDate
    /\ result.metadata.endDate - result.metadata.startDate
         = reportDays * HoursPerDay

\* C21: whenever scrapeTandemSource returns success, csvBuffer is not
\* empty: a zero-byte download is never reported as success.
C21_BufferNonEmpty ==
  (pc = "done" /\ result.success) => Len(result.csvBuffer) > 0

\* C22: the reportDays that performSync hands to scrapeTandemSource is an
\* integer and at least 1, whatever REPORT_DAYS is set to.
C22_ReportDaysValid ==
  \A r \in Requests :
    req[r].pc = "scraping" =>
      /\ ~req[r].reportDays.isNaN
      /\ req[r].reportDays.value >= 1

\* C23: every result scrapeTandemSource returns is of exactly one of two
\* shapes: success with csvBuffer and metadata and no error, or failure
\* with error and neither csvBuffer nor metadata.
C23_ResultShape ==
  pc = "done" =>
    IF result.success
      THEN /\ result.error = Absent
           /\ buffer # NoBuffer /\ result.csvBuffer = buffer
           /\ result.metadata \in
                {Metadata(now, zone, reportDays) : now \in Instants, zone \in Zones}
      ELSE /\ caught # NoError /\ result.error = ErrorMessage(caught)
           /\ result.csvBuffer = Absent
           /\ result.metadata = Absent

\* a failure returned after the file had been read
C23_Witness ==
  /\ pc = "done"
  /\ ~result.success
  /\ buffer # NoBuffer

\* The requests to POST /api/sync and GET /api/cron that were answered
\* after performSync returned
SyncAnswered ==
  {r \in Requests : /\ req[r].kind \in {"POST", "cron"}
                    /\ req[r].pc = "done"
                    /\ req[r].status \notin {401, 409}}

\* C24: POST /api/sync and GET /api/cron answer 200 exactly when
\* performSync's result has success = true; otherwise they answer 500 with
\* a body that has success = false and the error message of the result.
C24_StatusFollowsResult ==
  \A r \in SyncAnswered :
    /\ req[r].status \in {200, 500}
    /\ (req[r].status = 200) <=> req[r].sync.success
    /\ req[r].status = 500 =>
         /\ req[r].body.success = FALSE
         /\ req[r].sync.error # Absent
         /\ req[r].body.data.error = req[r].sync.error

C24_Witness ==
  \E r, q \in SyncAnswered :
    /\ req[r].kind = "cron" /\ req[r].status = 500
    /\ req[r].body.data.error = "Navigation timeout exceeded"
    /\ req[q].kind = "POST" /\ req[q].status = 200

\* The request carries the configured API key in one of the two headers
CarriesApiKey(request) ==
  /\ env.API_KEY # Unset
  /\ \/ BearerToken(request.authorization) = env.API_KEY
     \/ request.xApiKey = env.API_KEY

\* C25: a request to /api/sync or /api/cron that does not carry the
\* configured API key (none does when API_KEY is not set) is answered 401
\* and never starts performSync.
C25_ApiKeyRequired ==
  \A r \in Requests :
    (/\ req[r].kind \in {"POST", "cron"}
     /\ ~CarriesApiKey(req[r].request))
      => (req[r].pc = "done" /\ req[r].status = 401)

\* C26: validateApiKey accepts exactly the requests that carry the
\* configured API key in 'Authorization: Bearer' or in 'X-API-Key',
\* whatever the other header holds.
C26_EitherHeader ==
  \A r \in Requests :
    req[r].kind = "POST"
      => (CarriesApiKey(req[r].request) <=> req[r].status # 401)

\* C27: with DASHBOARD_PASSWORD set, triggerSyncAction goes on to
\* performSync only with a cookie that createSession issued at most
\* SESSION_MAX_AGE seconds ago.
C27_SessionIssued ==
  \A r \in Requests :
    (/\ env.DASHBOARD_PASSWORD # Unset
     /\ req[r].kind = "dashboard"
     /\ req[r].status # 401)
      => /\ req[r].cookie.issued
         /\ Now - req[r].cookie.timestamp <= SESSION_MAX_AGE * 1000

\* C28: with DASHBOARD_PASSWORD not set, triggerSyncAction runs performSync
\* for a visitor who did not log in and does not answer 'Unauthorized'.
C28_OpenDashboard ==
  \A r \in Requests :
    (/\ env.DASHBOARD_PASSWORD = Unset
     /\ req[r].kind = "dashboard")
      => req[r].status # 401

\* C29: the date-range step selects the one-week option exactly when
\* reportDays is 7: the option selected corresponds to reportDays.
C29_RangeMatchesReportDays ==
  last = "range:1 Week" => reportDays = 7

\* C30: when the document has a button of type submit, the submit step
\* clicks a button of type submit, wherever in the document a button
\* matched by text or aria-label stands.
C30_SubmitPriority ==
  (/\ dom.submitBtn # 0
   /\ \E i \in DOMAIN dom.buttons : dom.buttons[i].typeSubmit)
    => dom.buttons[dom.submitBtn].typeSubmit

\* C31: the download capture is registered before the export control is
\* clicked, and a completed-download event that follows the click, at
\* whatever moment, sets downloadedFile.
C31_CaptureBeforeExport ==
  /\ [](exportClicked => captureOn)
  /\ [][(OwnFile \notin DOMAIN tmp /\ last' = "download:completed"
           /\ last # last')
          => (exportClicked /\ downloadedFile' = OwnFile)]_vars

\* the event arrived during the delay that follows the click, before the
\* wait loop began
C31_Witness ==
  /\ pc = "D_modal" /\ last = "download:completed" /\ downloadedFile = OwnFile

\* The phase a position of scrapeTandemSource belongs to: 1 launch, 2 login,
\* 3 export, 4 close (the close of either path, and the return)
LaunchSteps == {"start", "newPage"}
ExportSteps == {"D_goto", "D_range", "D_cdp", "D_export", "D_modal", "D_wait",
                "D_read", "D_unlink"}
CloseSteps == {"S_close", "catch", "done"}
PhaseOf(p) ==
  CASE p \in LaunchSteps -> 1
    [] p \in ExportSteps -> 3
    [] p \in CloseSteps -> 4
    [] OTHER -> 2

\* C32: the phases of a run happen in the order launch, login, export,
\* close; downloadReport starts only when performLogin returned after its
\* origin check passed; and no phase is attempted a second time: the browser
\* is launched by the first step only and closed at most once.
C32_PhasesInOrder ==
  /\ [][PhaseOf(pc') >= PhaseOf(pc)]_vars
  /\ [][(pc' = "D_goto" /\ pc # "D_goto")
          => (pc = "L_verifyOrigin" /\ OnOrigin(url) /\ loginReturned')]_vars
  /\ [][pc' # "start" /\ (browser' = "handle" /\ browser = "null" => pc = "start")]_vars
  /\ [](closeCalls <= 1)

\* C33: when the completion event has set downloadedFile by the time the
\* wait loop ends, also during the loop's last sleep, downloadReport goes
\* on to read the file and does not report a timeout.
C33_LateEventReturnsFile ==
  [][(pc = "D_wait" /\ downloadedFile # "null" /\ pc' # "D_wait")
      => pc' = "D_read"]_vars

\* C34: the bytes a successful run returns are those of the file its own
\* export click downloaded, never those of another CSV_*.csv file in /tmp.
C34_OwnDownloadOnly ==
  (pc = "done" /\ result.success)
    => (filename = OwnFile /\ result.csvBuffer \in OwnContents)

\* C35: a call of performSync always returns a result, having called
\* storeSyncStatus exactly once, with the result it returns; what the call
\* writes, when the write goes through, is that result.
C35_StatusStoredOnce ==
  /\ [](\A r \in Requests :
          /\ req[r].stores <= 1
          /\ req[r].pc = "returned"
               => (req[r].stores = 1 /\ req[r].sync # NoSync))
  /\ [][\A r \in Requests :
          (req[r].pc = "status" /\ req'[r].pc # "status")
            => /\ req'[r].pc = "returned"
               /\ req'[r].sync = req[r].sync
               /\ (UNCHANGED syncStatus \/ syncStatus' = req[r].sync)]_vars
  /\ [][\A r \in Requests :
          (InSync(r) /\ ~InSync(r)') => req'[r].pc = "returned"]_vars

\* storeReport rejected: the failure was stored and returned
C35_Witness ==
  \E r \in Requests :
    /\ req[r].pc = "returned"
    /\ req[r].sync = SyncFailure("Failed to store report")
    /\ syncStatus.error = "Failed to store report"

\* The POST /api/sync handlers that set syncInProgress and have not finished
PostInFlight ==
  {r \in Requests : /\ req[r].kind = "POST"
                    /\ req[r].pc \in {"scraping", "storing", "status", "returned"}}

\* C36: syncInProgress is true exactly while a POST /api/sync handler that
\* set it has not finished, whatever performSync returned; so the flag
\* always becomes false again and a POST arriving then is accepted.  A
\* request answered 409 leaves the flag as it is, set by the run in flight.
C36_FlagCleared ==
  /\ [](syncInProgress <=> PostInFlight # {})
  /\ [][\A r \in Requests :
          (req[r].pc = "idle" /\ req'[r].status = 409)
            => (syncInProgress /\ syncInProgress' /\ PostInFlight' = PostInFlight)]_vars
  /\ (syncInProgress ~> ~syncInProgress)

\* a POST was accepted after an earlier POST, whose sync failed, had finished
C36_Witness ==
  \E r, q \in Requests :
    /\ req[r].kind = "POST" /\ req[r].pc = "done" /\ req[r].status = 500
    /\ req[q].kind = "POST" /\ req[q].pc = "scraping"
    /\ syncInProgress

\* C37 (as stated): a request to / or /login reaches a rendered page after
\* at most one redirect.
C37_AtMostOneRedirect == visit.redirects <= 1

\* C37 (amended): routing between / and /login never loops: every request
\* reaches a rendered page, after at most one redirect when the session's
\* validity is the same at both requests, and after at most two when the
\* session expires between them.
C37_RoutingTerminates ==
  /\ [](visit.redirects <= 2)
  /\ [](visit.redirects = 2 => visit.now > Now)
  /\ ((visit.rendered = "none") ~> (visit.rendered # "none"))

\* /login answered with a redirect to /, whose answer was the dashboard
C37_Witness ==
  /\ visit.rendered = "Dashboard" /\ visit.redirects = 1 /\ visit.page = "/"
  /\ visit.loggedOut = NoCookie

\* C38: after logoutAction the token the cookie held is no longer accepted:
\* presented again, it does not open the dashboard.
C38_LoggedOutTokenRejected ==
  (/\ isDashboardAuthRequired
   /\ visit.loggedOut # NoCookie
   /\ visit.cookie = visit.loggedOut)
    => visit.rendered # "Dashboard"

\* the reports of `set` that are among its n most recently uploaded
Newest(set, n) ==
  {x \in set : Cardinality({y \in set : y > x}) < n}

\* C39: when cleanupOldReports(keepCount) has returned, the reports gone
\* from the store that listReports reads are none of the keepCount newest,
\* their number is the value returned, and when the listing and every
\* deletion succeeded the store holds exactly the keepCount newest reports,
\* in both storage modes.
C39_CleanupKeepsNewest ==
  cleanup.pc = "returned" =>
    LET removed == cleanup.initial \ cleanup.store IN
    /\ removed \cap Newest(cleanup.initial, cleanup.keepCount) = {}
    /\ cleanup.returned = Cardinality(removed)
    /\ (cleanup.listed /\ cleanup.failures = 0)
         => cleanup.store = Newest(cleanup.initial, cleanup.keepCount)

====
